---- MODULE Spec2Model ----
(***************************************************************************)
(* A model of results/dataloader.py: the volumetric preprocessing pipeline *)
(* of MSD_data (bounding box, bounding-box label, depth crop, resize), the *)
(* colour <-> class-id mapping of the segmentation dataset, the            *)
(* (optionally differentially private) mean/std statistics, and the index  *)
(* protocol of the dataset adapters together with random_split.            *)
(*                                                                         *)
(* Arrays are records [shape |-> <<R, C, D>>, val |-> function on the      *)
(* 0-based index tuples].  Python's None is the empty tuple << >>.         *)
(***************************************************************************)
EXTENDS Integers, Sequences, FiniteSets, TLC

VARIABLES
    pc,        \* position inside MSD_data.get_item_from_index / crop_volume call
    cfg,       \* the call and the MSD_data attributes it reads
    scan,      \* the scan volume (data_volume)
    label,     \* the label volume
    raw,       \* the scan and label the call was given (history)
    label0,    \* the label after the optional merge (history)
    bsrc,      \* the volume bbox_dim_3D was last called on (history)
    b,         \* the value bbox_dim_3D returned last (None = << >>)
    err,       \* the exception that ended the call and where (None while running)
    printed,   \* the messages printed so far
    out,       \* what the call returned (shapes of the returned arrays)
    seg_pc,    \* position in the colour-map round trip
    label_img, \* the class map given to label_img_to_rgb (None when not used)
    target_in, \* the RGB target image as loaded (history; None before)
    target,    \* the RGB target array, written in place by the conversion loop
    target_labels, \* the class map SegmentationData returns (None before)
    st_pc,     \* position in calc_mean_std
    dataset,   \* the dataset (or loader) calc_mean_std is given
    epsilon,   \* the privacy budget (None when not given)
    mean_sens, \* l1_sensitivity(torch.mean, ...) (None when not computed)
    std_sens,  \* l1_sensitivity(torch.std, ...) (None when not computed)
    mean,      \* the returned mean (None before)
    std,       \* the returned std (None before)
    st_err,    \* the exception that ended calc_mean_std (None if none)
    dl_pc,     \* life cycle of a dataset adapter: "new", "ready" or "failed"
    dl_args,   \* the constructor call: the class, its arguments, the files on disk
    adapter,   \* the attributes of the constructed adapter (None before)
    built,     \* the adapter as its constructor left it (history; None before)
    call,      \* the last call made on the adapter (None before)
    ret        \* how that call ended: the value returned or the exception raised

volvars == <<pc, cfg, scan, label, raw, label0, bsrc, b, err, printed, out>>

segvars == <<seg_pc, label_img, target_in, target, target_labels>>

statvars == <<st_pc, dataset, epsilon, mean_sens, std_sens, mean, std, st_err>>

datavars == <<dl_pc, dl_args, adapter, built, call, ret>>

vars == <<volvars, segvars, statvars, datavars>>

\* ---------------------------------------------------------------- bounds

MaxRows == 3
MaxCols == 2
MaxDepth == 2

\* ------------------------------------------------------- program constants

ClipLow == -150
ClipHigh == 200
DefaultCropHeight == 32
CropUnit == 16

\* ------------------------------------------------------------ array basics

None == << >>

Min2(x, y) == IF x < y THEN x ELSE y
Max2(x, y) == IF x > y THEN x ELSE y

SetMin(S) == CHOOSE x \in S : \A y \in S : x <= y
SetMax(S) == CHOOSE x \in S : \A y \in S : x >= y

Idx(shape) == (0 .. shape[1] - 1) \X (0 .. shape[2] - 1) \X (0 .. shape[3] - 1)

Volume(shape, val) == [shape |-> shape, val |-> val]

\* a[lo:hi] on an axis of length n: the indices Python's slice selects
PySlice(lo, hi, n) ==
    LET norm(x) == IF x < 0 THEN Max2(x + n, 0) ELSE Min2(x, n)
    IN  { i \in 0 .. n - 1 : norm(lo) <= i /\ i < norm(hi) }

\* np.clip(scan, lo, hi)
np_clip(a, lo, hi) ==
    [a EXCEPT !.val = [v \in Idx(a.shape) |-> Max2(lo, Min2(hi, a.val[v]))]]

\* np.rot90(m): k = 1 in the plane of axes (0, 1):
\* transpose(flip(m, axis 1), swap axes 0 and 1)
np_rot90(m) ==
    LET s == <<m.shape[2], m.shape[1], m.shape[3]>>
    IN  Volume(s, [v \in Idx(s) |-> m.val[<<v[2], m.shape[2] - 1 - v[1], v[3]>>]])

\* np.fliplr(m): m[:, ::-1]
np_fliplr(m) ==
    Volume(m.shape,
           [v \in Idx(m.shape) |-> m.val[<<v[1], m.shape[2] - 1 - v[2], v[3]>>]])

\* the assertion of scale_array: array.max() - array.min() > 0
scale_array_assert(a) ==
    LET vals == { a.val[v] : v \in Idx(a.shape) }
    IN  SetMax(vals) - SetMin(vals) > 0

\* scale_array: (array - min) / (max - min); the quotient is kept as the
\* pair <<numerator, denominator>>
scale_array(a) ==
    LET vals == { a.val[v] : v \in Idx(a.shape) }
        lo == SetMin(vals)
        hi == SetMax(vals)
    IN  [a EXCEPT !.val = [v \in Idx(a.shape) |-> <<a.val[v] - lo, hi - lo>>]]

\* preprocess_scan: clip, scale, rot90, fliplr
preprocess_scan(a) == np_fliplr(np_rot90(scale_array(np_clip(a, ClipLow, ClipHigh))))

\* rotate_label with the flip forgotten
rotate_label_noflip(label_volume) == np_rot90(label_volume)

\* rotate_label: rot90, fliplr (astype(float32) keeps the integral values)
rotate_label(label_volume) == np_fliplr(np_rot90(label_volume))

\* merge_labels: zeros, then 1.0 wherever the label is 1 or 2
merge_labels(label_volume) ==
    Volume(label_volume.shape,
           [v \in Idx(label_volume.shape) |->
               IF label_volume.val[v] = 1 \/ label_volume.val[v] = 2 THEN 1 ELSE 0])

\* np.nonzero(img): the indices of the nonzero entries
np_nonzero(img) == { v \in Idx(img.shape) : img.val[v] # 0 }

\* bbox_dim_3D taking the column and depth profiles over the wrong axes
bbox_dim_3D_axes(img) ==
    IF np_nonzero(img) = {} THEN None
    ELSE LET r == { i \in 0 .. img.shape[1] - 1 :
                      \E v \in Idx(img.shape) : v[1] = i /\ img.val[v] # 0 }
             c == { j \in 0 .. img.shape[3] - 1 :
                      \E v \in Idx(img.shape) : v[3] = j /\ img.val[v] # 0 }
             z == { k \in 0 .. img.shape[2] - 1 :
                      \E v \in Idx(img.shape) : v[2] = k /\ img.val[v] # 0 }
         IN  <<SetMin(r), SetMax(r), SetMin(c), SetMax(c), SetMin(z), SetMax(z)>>

\* bbox_dim_3D answering an all-zero volume with a degenerate box
bbox_dim_3D_nocheck(img) ==
    LET r == { i \in 0 .. img.shape[1] - 1 :
                 \E v \in Idx(img.shape) : v[1] = i /\ img.val[v] # 0 } \cup {0}
        c == { j \in 0 .. img.shape[2] - 1 :
                 \E v \in Idx(img.shape) : v[2] = j /\ img.val[v] # 0 } \cup {0}
        z == { k \in 0 .. img.shape[3] - 1 :
                 \E v \in Idx(img.shape) : v[3] = k /\ img.val[v] # 0 } \cup {0}
    IN  <<SetMin(r), SetMax(r), SetMin(c), SetMax(c), SetMin(z), SetMax(z)>>

\* bbox_dim_3D: None for an all-zero volume, else
\* <<rmin, rmax, cmin, cmax, zmin, zmax>> from np.any over the other two axes
bbox_dim_3D(img) ==
    IF np_nonzero(img) = {} THEN None
    ELSE LET r == { i \in 0 .. img.shape[1] - 1 :
                      \E v \in Idx(img.shape) : v[1] = i /\ img.val[v] # 0 }
             c == { j \in 0 .. img.shape[2] - 1 :
                      \E v \in Idx(img.shape) : v[2] = j /\ img.val[v] # 0 }
             z == { k \in 0 .. img.shape[3] - 1 :
                      \E v \in Idx(img.shape) : v[3] = k /\ img.val[v] # 0 }
         IN  <<SetMin(r), SetMax(r), SetMin(c), SetMax(c), SetMin(z), SetMax(z)>>

\* create_3D_label: zeros((res, res, num_slices)), then
\* label_volume[rmin:rmax, cmin:cmax, zmin:zmax] = 1.0
create_3D_label(rmin, rmax, cmin, cmax, zmin, zmax, res, num_slices) ==
    Volume(<<res, res, num_slices>>,
           [v \in Idx(<<res, res, num_slices>>) |->
               IF /\ v[1] \in PySlice(rmin, rmax, res)
                  /\ v[2] \in PySlice(cmin, cmax, res)
                  /\ v[3] \in PySlice(zmin, zmax, num_slices)
               THEN 1 ELSE 0])

\* volume[:, :, z_min:z_max]
SliceDepth(a, z_min, z_max) ==
    LET ks == PySlice(z_min, z_max, a.shape[3])
        n == Cardinality(ks)
        k0 == IF ks = {} THEN 0 ELSE SetMin(ks)
    IN  Volume(<<a.shape[1], a.shape[2], n>>,
               [v \in Idx(<<a.shape[1], a.shape[2], n>>) |->
                   a.val[<<v[1], v[2], v[3] + k0>>]])

\* the z-range crop_volume slices, from the bounding box bb of the label
crop_range(bb, crop_height) ==
    LET zmiddle == (bb[5] + bb[6]) \div 2
        z_min0 == zmiddle - (crop_height \div 2)
        z_min == IF z_min0 < 0 THEN 0 ELSE z_min0
        z_max == zmiddle + (crop_height \div 2)
    IN  <<z_min, z_max>>

\* crop_volume, for a label whose bounding box is not None
crop_volume(data_volume, label_volume, crop_height) ==
    LET zr == crop_range(bbox_dim_3D(label_volume), crop_height)
    IN  <<SliceDepth(data_volume, zr[1], zr[2]),
          SliceDepth(label_volume, zr[1], zr[2])>>

\* skimage.transform.resize(volume, output_shape, ...): the result has the
\* requested shape whatever the interpolation order
resize_shape(a, output_shape) == output_shape

\* convert_to_2d(np.expand_dims(a, 0)): (1, x, y, h) -> (h, x, y)
convert_to_2d_shape(s) == <<s[3], s[1], s[2]>>

\* ------------------------------------------------------------------ inputs

Shapes == { <<r, c, d>> : r \in 1 .. MaxRows, c \in 1 .. MaxCols, d \in 1 .. MaxDepth }

Lin(shape, v) == (v[1] * shape[2] + v[2]) * shape[3] + v[3]

\* raw scans: a ramp of intensities that leaves the clip range on both
\* sides (a one-voxel scan is constant)
ScanInput(shape) == Volume(shape, [v \in Idx(shape) |-> 40 * Lin(shape, v) - 200])

\* raw labels: 0 = background, 1 = pancreas, 2 = tumour, 3 = a class that
\* merge_labels does not keep.  The foreground is empty, one voxel or two
\* voxels: two voxels span every bounding box the volume can hold
ClassPatterns == {"pancreas", "other", "mixed"}

ClassOf(pattern, shape, v) ==
    CASE pattern = "pancreas" -> 1
      [] pattern = "other" -> 3
      [] OTHER -> 1 + ((Lin(shape, v) + 2) % 3)

Foregrounds(shape) == { {} } \cup { {p, q} : p, q \in Idx(shape) }

LabelInputs(shape) ==
    { Volume(shape, [v \in Idx(shape) |->
                        IF v \in F THEN ClassOf(p, shape, v) ELSE 0]) :
        F \in Foregrounds(shape), p \in ClassPatterns }

CropHeights == {2, 3, 4, DefaultCropHeight}

\* MSD_data.__init__ asserts crop_height % 16 == 0
MSDCropHeights == { h \in CropHeights : h % CropUnit = 0 }

Configs ==
    [call : {"get_item_from_index"}, label_mode : {"seg", "bbox-seg"},
     mrg_labels : BOOLEAN, crop_height : MSDCropHeights]
    \cup
    [call : {"crop_volume"}, label_mode : {"seg"},
     mrg_labels : {FALSE}, crop_height : CropHeights \ MSDCropHeights]

Resolutions == { <<2, 2>>, <<4, 3>> }

Modes == {"2D", "3D"}

\* ------------------------------------------------- MSD_data.get_item_from_index

\* the statistics variables while no calc_mean_std call is modelled
StatIdle ==
    /\ st_pc = "idle"
    /\ dataset = None
    /\ epsilon = None
    /\ mean_sens = None
    /\ std_sens = None
    /\ mean = None
    /\ std = None
    /\ st_err = None

\* the colour-map variables while no colour-map call is modelled
SegIdle ==
    /\ seg_pc = "idle"
    /\ label_img = None
    /\ target_in = None
    /\ target = None
    /\ target_labels = None

\* the adapter variables while no dataset adapter is modelled
DataIdle ==
    /\ dl_pc = "idle"
    /\ dl_args = None
    /\ adapter = None
    /\ built = None
    /\ call = None
    /\ ret = None

InitVol ==
    /\ pc = "load"
    /\ cfg \in Configs
    /\ \E s \in Shapes :
         /\ scan = ScanInput(s)
         /\ label \in LabelInputs(s)
    /\ raw = [scan |-> scan, label |-> label]
    /\ label0 = None
    /\ bsrc = None
    /\ b = None
    /\ err = None
    /\ printed = << >>
    /\ out = None
    /\ SegIdle
    /\ StatIdle
    /\ DataIdle

Raise(e, at) ==
    /\ pc' = "raised"
    /\ err' = [type |-> e, at |-> at]

\* preprocess_and_convert_to_numpy: preprocess_scan (scale_array asserts a
\* non-constant scan), rotate_label, assert equal shapes
preprocess_and_convert_to_numpy ==
    /\ pc = "load"
    /\ cfg.call = "get_item_from_index"
    /\ IF ~ scale_array_assert(np_clip(scan, ClipLow, ClipHigh))
       THEN /\ Raise("AssertionError", "scale_array")
            /\ UNCHANGED <<scan, label>>
       ELSE LET np_scan == preprocess_scan(scan)
                np_label == rotate_label(label)
            IN  IF np_scan.shape # np_label.shape
                THEN /\ Raise("AssertionError", "preprocess_and_convert_to_numpy")
                     /\ UNCHANGED <<scan, label>>
                ELSE /\ scan' = np_scan
                     /\ label' = np_label
                     /\ pc' = "preprocessed"
                     /\ err' = err
    /\ UNCHANGED <<cfg, raw, label0, bsrc, b, printed, out, segvars, statvars, datavars>>

\* if self.mrg_labels: label = merge_labels(label)
MergeStep ==
    /\ pc = "preprocessed"
    /\ label' = IF cfg.mrg_labels THEN merge_labels(label) ELSE label
    /\ label0' = label'
    /\ pc' = "merged"
    /\ UNCHANGED <<cfg, scan, raw, bsrc, b, err, printed, out, segvars, statvars, datavars>>

\* if label_mode is "bbox-seg" (or "bbox-coord"): b = bbox_dim_3D(label);
\* a None b is reported and then subscripted (TypeError); otherwise the label
\* is replaced by create_3D_label(b..., label.shape[1], label.shape[2])
BoxStep ==
    /\ pc = "merged"
    /\ IF cfg.label_mode = "bbox-seg" \/ cfg.label_mode = "bbox-coord"
       THEN /\ b' = bbox_dim_3D(label)
            /\ bsrc' = label
            /\ IF b' = None
               THEN /\ printed' = printed \o <<"Warning Empty Label Mask",
                                               "Couldn't generate a bounding box">>
                    /\ Raise("TypeError", "get_item_from_index")
                    /\ label' = label
               ELSE /\ label' = create_3D_label(b'[1], b'[2], b'[3], b'[4], b'[5], b'[6],
                                                label.shape[2], label.shape[3])
                    /\ pc' = "boxed"
                    /\ UNCHANGED <<err, printed>>
       ELSE /\ pc' = "boxed"
            /\ UNCHANGED <<label, bsrc, b, err, printed>>
    /\ UNCHANGED <<cfg, scan, raw, label0, out, segvars, statvars, datavars>>

\* crop_volume(scan, label, crop_height): bbox_dim_3D(label) is unpacked into
\* six names (TypeError when it is None); in get_item_from_index the shapes of
\* the two crops are then asserted equal
CropStep ==
    /\ \/ pc = "boxed"
       \/ pc = "load" /\ cfg.call = "crop_volume"
    /\ b' = bbox_dim_3D(label)
    /\ bsrc' = label
    /\ IF b' = None
       THEN /\ printed' = Append(printed, "Warning Empty Label Mask")
            /\ Raise("TypeError", "crop_volume")
            /\ UNCHANGED <<scan, label>>
       ELSE LET cropped == crop_volume(scan, label, cfg.crop_height)
            IN  /\ scan' = cropped[1]
                /\ label' = cropped[2]
                /\ printed' = printed
                /\ IF pc = "boxed" /\ cropped[1].shape # cropped[2].shape
                   THEN Raise("AssertionError", "get_item_from_index")
                   ELSE /\ pc' = IF pc = "boxed" THEN "cropped" ELSE "returned"
                        /\ err' = err
    /\ UNCHANGED <<cfg, raw, label0, out, segvars, statvars, datavars>>

\* resize both crops to (res, res, res_z)
ResizeStep ==
    /\ pc = "cropped"
    /\ \E r \in Resolutions :
         out' = [res |-> r[1], res_z |-> r[2],
                 scan |-> resize_shape(scan, <<r[1], r[1], r[2]>>),
                 label |-> resize_shape(label, <<r[1], r[1], r[2]>>)]
    /\ pc' = "resized"
    /\ UNCHANGED <<cfg, scan, label, raw, label0, bsrc, b, err, printed, segvars, statvars, datavars>>

\* mode "2D": destack both into slices and give the scan a channel axis
ReturnStep ==
    /\ pc = "resized"
    /\ \E mode \in Modes :
         out' = IF mode = "2D"
                THEN LET s == convert_to_2d_shape(out.scan)
                         l == convert_to_2d_shape(out.label)
                     IN  [out EXCEPT !.scan = <<s[1], 1, s[2], s[3]>>, !.label = l]
                ELSE out
    /\ pc' = "done"
    /\ UNCHANGED <<cfg, scan, label, raw, label0, bsrc, b, err, printed, segvars, statvars, datavars>>

NextVol ==
    \/ preprocess_and_convert_to_numpy
    \/ MergeStep
    \/ BoxStep
    \/ CropStep
    \/ ResizeStep
    \/ ReturnStep

SpecVol == InitVol /\ [][NextVol]_vars

\* ----------------------------------------------------- label colour mapping

MaxPix == 1

SEG_LABELS_LIST ==
    << [id |-> 0, name |-> "building", rgb_values |-> <<128, 0, 0>>],
       [id |-> 1, name |-> "grass", rgb_values |-> <<0, 128, 0>>],
       [id |-> 2, name |-> "tree", rgb_values |-> <<128, 128, 0>>],
       [id |-> 3, name |-> "cow", rgb_values |-> <<0, 0, 128>>],
       [id |-> 4, name |-> "horse", rgb_values |-> <<128, 0, 128>>],
       [id |-> 5, name |-> "sheep", rgb_values |-> <<0, 128, 128>>],
       [id |-> 6, name |-> "sky", rgb_values |-> <<128, 128, 128>>],
       [id |-> 7, name |-> "mountain", rgb_values |-> <<64, 0, 0>>],
       [id |-> 8, name |-> "airplane", rgb_values |-> <<192, 0, 0>>],
       [id |-> 9, name |-> "water", rgb_values |-> <<64, 128, 0>>],
       [id |-> 10, name |-> "face", rgb_values |-> <<192, 128, 0>>],
       [id |-> 11, name |-> "car", rgb_values |-> <<64, 0, 128>>],
       [id |-> 12, name |-> "bicycle", rgb_values |-> <<192, 0, 128>>],
       [id |-> 13, name |-> "flower", rgb_values |-> <<64, 128, 128>>],
       [id |-> 14, name |-> "sign", rgb_values |-> <<192, 128, 128>>],
       [id |-> 15, name |-> "bird", rgb_values |-> <<0, 64, 0>>],
       [id |-> 16, name |-> "book", rgb_values |-> <<128, 64, 0>>],
       [id |-> 17, name |-> "chair", rgb_values |-> <<0, 192, 0>>],
       [id |-> 18, name |-> "road", rgb_values |-> <<128, 64, 128>>],
       [id |-> 19, name |-> "cat", rgb_values |-> <<0, 192, 128>>],
       [id |-> 20, name |-> "dog", rgb_values |-> <<128, 192, 128>>],
       [id |-> 21, name |-> "body", rgb_values |-> <<64, 64, 0>>],
       [id |-> 22, name |-> "boat", rgb_values |-> <<192, 64, 0>>] >>

SegIds == { SEG_LABELS_LIST[k].id : k \in 1 .. Len(SEG_LABELS_LIST) }

SegColours == { SEG_LABELS_LIST[k].rgb_values : k \in 1 .. Len(SEG_LABELS_LIST) }

\* images are flattened to the sequence of their pixels: every step of both
\* conversions acts on each pixel alone

\* label_img_to_rgb: start from the class id in all three channels, then for
\* each vocabulary entry present in the map (in list order) overwrite the
\* pixels holding its id with its colour; astype(np.uint8)
RECURSIVE label_img_to_rgb_loop(_, _, _)
label_img_to_rgb_loop(img, rgb, k) ==
    IF k > Len(SEG_LABELS_LIST) THEN rgb
    ELSE LET l == SEG_LABELS_LIST[k]
             present == \E i \in 1 .. Len(img) : img[i] = l.id
             painted == [i \in 1 .. Len(img) |->
                            IF img[i] = l.id THEN l.rgb_values ELSE rgb[i]]
         IN  label_img_to_rgb_loop(img, IF present THEN painted ELSE rgb, k + 1)

label_img_to_rgb(img) ==
    LET rgb0 == [i \in 1 .. Len(img) |-> <<img[i], img[i], img[i]>>]
        rgb == label_img_to_rgb_loop(img, rgb0, 1)
    IN  [i \in 1 .. Len(img) |->
            <<rgb[i][1] % 256, rgb[i][2] % 256, rgb[i][3] % 256>>]

\* one pass of the loop with np.any in place of np.all
rgb_to_id_pass_any(tgt, l) ==
    [i \in 1 .. Len(tgt) |->
        IF \E ch \in 1 .. 3 : tgt[i][ch] = l.rgb_values[ch]
        THEN <<l.id, tgt[i][2], tgt[i][3]>> ELSE tgt[i]]

\* one pass of the loop of SegmentationData.get_item_from_index:
\* mask = np.all(target == rgb_values, axis=2); target_labels[mask] = id,
\* where target_labels is the view target[..., 0], so the id lands in the
\* first channel of target itself
rgb_to_id_pass(tgt, l) ==
    [i \in 1 .. Len(tgt) |->
        IF tgt[i] = l.rgb_values THEN <<l.id, tgt[i][2], tgt[i][3]>> ELSE tgt[i]]

RECURSIVE rgb_to_id_loop(_, _)
rgb_to_id_loop(tgt, k) ==
    IF k > Len(SEG_LABELS_LIST) THEN tgt
    ELSE rgb_to_id_loop(rgb_to_id_pass(tgt, SEG_LABELS_LIST[k]), k + 1)

\* channel values of the target images: the four the vocabulary uses and one
\* small value no vocabulary colour holds
ChannelValues == {0, 5, 64, 128, 192}

Pixels == ChannelValues \X ChannelValues \X ChannelValues

TargetImages == UNION { [1 .. n -> Pixels] : n \in 1 .. MaxPix }

\* class maps: the vocabulary ids and one id outside the vocabulary
ClassMaps == UNION { [1 .. n -> SegIds \cup {Len(SEG_LABELS_LIST)}] : n \in 1 .. MaxPix }

\* the volumetric variables while no volumetric call is modelled
VolIdle ==
    /\ pc = "idle"
    /\ cfg = None
    /\ scan = None
    /\ label = None
    /\ raw = None
    /\ label0 = None
    /\ bsrc = None
    /\ b = None
    /\ err = None
    /\ printed = << >>
    /\ out = None

InitSeg ==
    /\ VolIdle
    /\ StatIdle
    /\ DataIdle
    /\ seg_pc = "start"
    /\ target_labels = None
    /\ target_in = None
    /\ \/ label_img = None /\ target \in TargetImages
       \/ label_img \in ClassMaps /\ target = None

\* label_img_to_rgb(label_img); the picture it returns becomes a target image
LabelImgToRgb ==
    /\ seg_pc = "start"
    /\ label_img # None
    /\ target' = label_img_to_rgb(label_img)
    /\ seg_pc' = "rendered"
    /\ UNCHANGED <<label_img, target_in, target_labels, volvars, statvars, datavars>>

\* SegmentationData.get_item_from_index: target_labels = target[..., 0], the
\* loop over SEG_LABELS_LIST, and the copy that is returned
SegGetItemFromIndex ==
    /\ \/ seg_pc = "start" /\ label_img = None
       \/ seg_pc = "rendered"
    /\ target_in' = target
    /\ target' = rgb_to_id_loop(target, 1)
    /\ target_labels' = [i \in 1 .. Len(target) |-> target'[i][1]]
    /\ seg_pc' = "converted"
    /\ UNCHANGED <<label_img, volvars, statvars, datavars>>

NextSeg ==
    \/ LabelImgToRgb
    \/ SegGetItemFromIndex

SpecSeg == InitSeg /\ [][NextSeg]_vars

EntryOfColour(px) == { k \in 1 .. Len(SEG_LABELS_LIST) : SEG_LABELS_LIST[k].rgb_values = px }

EntryOfId(x) == { k \in 1 .. Len(SEG_LABELS_LIST) : SEG_LABELS_LIST[k].id = x }

\* C3: a class map holding a vocabulary id is rendered as that entry's
\* colour, a target pixel holding a vocabulary colour is converted to that
\* entry's id, and id -> RGB -> id is the identity on the vocabulary ids.
C3_ColourMapRoundTrip ==
    /\ (seg_pc \in {"rendered", "converted"} /\ label_img # None) =>
          LET rgb == IF seg_pc = "rendered" THEN target ELSE target_in
          IN  \A i \in 1 .. Len(label_img) : \A k \in EntryOfId(label_img[i]) :
                 rgb[i] = SEG_LABELS_LIST[k].rgb_values
    /\ seg_pc = "converted" =>
          \A i \in 1 .. Len(target_in) : \A k \in EntryOfColour(target_in[i]) :
             target_labels[i] = SEG_LABELS_LIST[k].id
    /\ (seg_pc = "converted" /\ label_img # None) =>
          \A i \in 1 .. Len(label_img) :
             label_img[i] \in SegIds => target_labels[i] = label_img[i]

C3_Witness ==
    /\ seg_pc = "converted"
    /\ label_img # None
    /\ label_img[1] = 22
    /\ target_in[1] = <<192, 64, 0>>
    /\ target_labels[1] = 22

\* C6: every pixel whose colour matches no vocabulary entry receives one and
\* the same background value, and never the id of a vocabulary class.
C6_UnmatchedIsBackground ==
    seg_pc = "converted" =>
        LET unmatched == { i \in 1 .. Len(target_in) : target_in[i] \notin SegColours }
        IN  /\ \A i \in unmatched : target_labels[i] \notin SegIds
            /\ \A i, j \in unmatched : target_labels[i] = target_labels[j]

\* ------------------------------------------------------------ calc_mean_std

MaxN == 3

\* a quotient n/d is the pair <<n, d>> with d > 0; <<0, 0>> is nan.  A
\* standard deviation is kept as the quotient under its square root.
NaN == <<0, 0>>

IsNaN(x) == x[2] = 0

\* x > y on quotients (on standard deviations: the square root is monotone);
\* a comparison with nan is False
RatGt(x, y) == ~ IsNaN(x) /\ ~ IsNaN(y) /\ x[1] * y[2] > y[1] * x[2]

RatEq(x, y) == IF IsNaN(x) \/ IsNaN(y) THEN IsNaN(x) /\ IsNaN(y)
               ELSE x[1] * y[2] = y[1] * x[2]

RECURSIVE SumSeq(_)
SumSeq(xs) == IF xs = << >> THEN 0 ELSE Head(xs) + SumSeq(Tail(xs))

RECURSIVE Flatten(_)
Flatten(rows) == IF rows = << >> THEN << >> ELSE Head(rows) \o Flatten(Tail(rows))

Squares(xs) == [i \in 1 .. Len(xs) |-> xs[i] * xs[i]]

\* the mean of the values xs
MeanOf(xs) == IF Len(xs) = 0 THEN NaN ELSE <<SumSeq(xs), Len(xs)>>

\* the (unbiased, torch's default) standard deviation of the values xs, as
\* the quotient under the root: (n * sum(x^2) - sum(x)^2) / (n * (n - 1))
StdOf(xs) ==
    LET n == Len(xs)
    IN  IF n <= 1 THEN NaN
        ELSE <<n * SumSeq(Squares(xs)) - SumSeq(xs) * SumSeq(xs), n * (n - 1)>>

\* torch.mean(t), torch.std(t) of a tensor t of shape (n, C): over all elements
Query(query, t) == IF query = "mean" THEN MeanOf(Flatten(t)) ELSE StdOf(Flatten(t))

\* data[train]: the rows of data without row i
WithoutRow(data, i) == SubSeq(data, 1, i - 1) \o SubSeq(data, i + 1, Len(data))

\* l1_sensitivity: sensitivity = 0, then for each leave-one-out split
\* val = query(data[train]); if val > sensitivity: sensitivity = val
RECURSIVE l1_sensitivity_loop(_, _, _, _)
l1_sensitivity_loop(query, data, i, sensitivity) ==
    IF i > Len(data) THEN sensitivity
    ELSE LET val == Query(query, WithoutRow(data, i))
         IN  l1_sensitivity_loop(query, data, i + 1,
                                 IF RatGt(val, sensitivity) THEN val ELSE sensitivity)

l1_sensitivity(query, d) == l1_sensitivity_loop(query, d, 1, <<0, 1>>)

\* LeaveOneOut().split raises ValueError for fewer than two samples
LeaveOneOutRaises(d) == Len(d) <= 1

\* while type(d) is tuple or type(d) is list: d = d[0]
RECURSIVE Unwrap(_)
Unwrap(d) == IF d.is_tuple THEN Unwrap(d.v[1]) ELSE d.v

\* stack of the samples of a Dataset, cat of the batches of a DataLoader
Accumulate(ds) ==
    LET acc == [i \in 1 .. Len(ds.items) |-> Unwrap(ds.items[i])]
    IN  IF ds.kind = "Dataset" THEN acc ELSE Flatten(acc)

\* if accumulated_data.shape[1] in [1, 3]: dims = (0, 2, ...) else all dims
ReductionDims(acc) ==
    IF Len(acc[1]) \in {1, 3} THEN {0} ELSE {0, 1}

Column(acc, c) == [i \in 1 .. Len(acc) |-> acc[i][c]]

\* std_mean(accumulated_data, dim=dims): one value per channel when only the
\* sample axis is reduced, else one value
std_mean(acc, dims) ==
    IF dims = {0}
    THEN [std |-> [c \in 1 .. Len(acc[1]) |-> StdOf(Column(acc, c))],
          mean |-> [c \in 1 .. Len(acc[1]) |-> MeanOf(Column(acc, c))]]
    ELSE [std |-> <<StdOf(Flatten(acc))>>, mean |-> <<MeanOf(Flatten(acc))>>]

\* the condition that is always true
EpsilonAlways(eps) == TRUE

\* if epsilon: (neither None nor zero)
EpsilonGiven(eps) == eps # None /\ eps # <<0>>

\* the values a sample holds
SampleValues == {0, 1, 3}

Channels == {1, 2}

Tensor(x) == [is_tuple |-> FALSE, v |-> x]

Tuple(x, y) == [is_tuple |-> TRUE, v |-> <<x, y>>]

\* the same rows as a Dataset of tensors, a Dataset of (tensor, target)
\* pairs, a DataLoader of one-sample [batch, targets] lists, and an object
\* that is neither
DatasetFormNames == {"tensors", "pairs", "loader", "list"}

DatasetForm(form, rows) ==
    CASE form = "tensors" ->
           [kind |-> "Dataset", items |-> [i \in 1 .. Len(rows) |-> Tensor(rows[i])]]
      [] form = "pairs" ->
           [kind |-> "Dataset",
            items |-> [i \in 1 .. Len(rows) |-> Tuple(Tensor(rows[i]), Tensor(<<i>>))]]
      [] form = "loader" ->
           [kind |-> "DataLoader",
            items |-> [i \in 1 .. Len(rows) |-> Tuple(Tensor(<<rows[i]>>), Tensor(<<i>>))]]
      [] OTHER ->
           [kind |-> "list", items |-> [i \in 1 .. Len(rows) |-> Tensor(rows[i])]]

RowSets == UNION { [1 .. n -> [1 .. c -> SampleValues]] : n \in 1 .. MaxN, c \in Channels }

\* the budget: None, or <<e>> for the number e
Epsilons == {None, <<0>>, <<2>>}

\* the quantile at which the Laplace sample is drawn, as a sign
NoiseDraws == {-1, 1}

InitStat ==
    /\ VolIdle
    /\ SegIdle
    /\ DataIdle
    /\ st_pc = "start"
    /\ \E rows \in RowSets, form \in DatasetFormNames : dataset = DatasetForm(form, rows)
    /\ epsilon \in Epsilons
    /\ mean_sens = None
    /\ std_sens = None
    /\ mean = None
    /\ std = None
    /\ st_err = None

\* calc_mean_std(dataset, epsilon=epsilon), save_folder left None (nothing is
\* written)
calc_mean_std ==
    /\ st_pc = "start"
    /\ UNCHANGED <<dataset, epsilon, volvars, segvars, datavars>>
    /\ IF dataset.kind \notin {"Dataset", "DataLoader"}
       THEN /\ st_pc' = "raised"
            /\ st_err' = "NotImplementedError"
            /\ UNCHANGED <<mean_sens, std_sens, mean, std>>
       ELSE LET accumulated_data == Accumulate(dataset)
                dims == ReductionDims(accumulated_data)
                sm == std_mean(accumulated_data, dims)
            IN  IF EpsilonGiven(epsilon)
                THEN IF LeaveOneOutRaises(accumulated_data)
                     THEN /\ st_pc' = "raised"
                          /\ st_err' = "ValueError"
                          /\ UNCHANGED <<mean_sens, std_sens, mean, std>>
                     ELSE /\ mean_sens' = l1_sensitivity("mean", accumulated_data)
                          /\ std_sens' = l1_sensitivity("std", accumulated_data)
                          /\ \E u \in NoiseDraws :
                               std' = [value |-> sm.std,
                                       noise |-> [sens |-> std_sens', epsilon |-> epsilon,
                                                  draw |-> u]]
                          /\ \E u \in NoiseDraws :
                               mean' = [value |-> sm.mean,
                                        noise |-> [sens |-> mean_sens', epsilon |-> epsilon,
                                                   draw |-> u]]
                          /\ st_pc' = "done"
                          /\ st_err' = st_err
                ELSE /\ std' = [value |-> sm.std, noise |-> None]
                     /\ mean' = [value |-> sm.mean, noise |-> None]
                     /\ st_pc' = "done"
                     /\ UNCHANGED <<mean_sens, std_sens, st_err>>

NextStat == calc_mean_std

SpecStat == InitStat /\ [][NextStat]_vars

\* the rows the dataset holds, read off the dataset itself
RowsOf(ds) ==
    [i \in 1 .. Len(ds.items) |->
        LET it == ds.items[i]
        IN  CASE ~ it.is_tuple -> it.v
              [] ds.kind = "DataLoader" -> it.v[1].v[1]
              [] OTHER -> it.v[1].v]

\* the values the reduction over dims folds into output position c
Reduced(rows, c) ==
    IF Len(rows[1]) \in {1, 3} THEN Column(rows, c) ELSE Flatten(rows)

\* C4: without a privacy budget the returned mean and std are the plain mean
\* and standard deviation of the samples over the reduction dimensions; no
\* noise is added and no sensitivity is computed.
C4_PlainMeanStdWithoutBudget ==
    (st_pc = "done" /\ epsilon = None) =>
        LET rows == RowsOf(dataset)
        IN  /\ mean.noise = None
            /\ std.noise = None
            /\ mean_sens = None
            /\ std_sens = None
            /\ Len(mean.value) = Len(std.value)
            /\ Len(mean.value) = IF Len(rows[1]) \in {1, 3} THEN Len(rows[1]) ELSE 1
            /\ \A c \in 1 .. Len(mean.value) :
                 LET xs == Reduced(rows, c)
                     n == Len(xs)
                     total == SumSeq(xs)
                 IN  /\ mean.value[c][1] * n = total * mean.value[c][2]
                     /\ mean.value[c][2] > 0
                     /\ IF n = 1 THEN IsNaN(std.value[c])
                        ELSE /\ std.value[c][2] > 0
                             \* std^2 * (n - 1) * n^2 = sum((n * x - total)^2)
                             /\ std.value[c][1] * (n - 1) * n * n
                                  = std.value[c][2]
                                      * SumSeq([i \in 1 .. n |->
                                                  (n * xs[i] - total) * (n * xs[i] - total)])

C4_Witness ==
    /\ st_pc = "done"
    /\ epsilon = None
    /\ dataset.kind = "Dataset"
    /\ Len(dataset.items) = 3
    /\ Len(mean.value) = 1
    /\ mean.value[1][1] > 0
    /\ std.value[1][1] > 0

AbsDiff(x, y) ==
    LET d == x[1] * y[2] - y[1] * x[2]
    IN  <<IF d < 0 THEN -d ELSE d, x[2] * y[2]>>

\* max over the samples i of |query(d) - query(d without sample i)|
LeaveOneOutSensitivityOfMean(rows) ==
    LET diffs == { AbsDiff(MeanOf(Flatten(rows)), MeanOf(Flatten(WithoutRow(rows, i)))) :
                     i \in 1 .. Len(rows) }
    IN  CHOOSE x \in diffs : \A y \in diffs : ~ RatGt(y, x)

\* C8: l1_sensitivity(torch.mean, d) is the largest change of the mean when
\* one sample is removed, and the Laplace noise added to the mean and to the
\* std has scale sensitivity / epsilon.
C8_SensitivityIsLeaveOneOutChange ==
    (st_pc = "done" /\ EpsilonGiven(epsilon)) =>
        /\ RatEq(mean_sens, LeaveOneOutSensitivityOfMean(RowsOf(dataset)))
        /\ mean.noise.sens = mean_sens /\ mean.noise.epsilon = epsilon
        /\ std.noise.sens = std_sens /\ std.noise.epsilon = epsilon

\* ------------------------------------------------------- volumetric claims

InBox(bb, v) ==
    /\ bb[1] <= v[1] /\ v[1] <= bb[2]
    /\ bb[3] <= v[2] /\ v[2] <= bb[4]
    /\ bb[5] <= v[3] /\ v[3] <= bb[6]

\* C1: for a label volume with at least one nonzero voxel, the box
\* bbox_dim_3D returned contains every nonzero voxel, and each of its six
\* bounds is attained by some nonzero voxel.
C1_BBoxContainsAndIsMinimal ==
    (bsrc # None /\ np_nonzero(bsrc) # {}) =>
        /\ b # None
        /\ \A v \in np_nonzero(bsrc) : InBox(b, v)
        /\ \A i \in 1 .. 3 :
             /\ \E v \in np_nonzero(bsrc) : v[i] = b[2 * i - 1]
             /\ \E v \in np_nonzero(bsrc) : v[i] = b[2 * i]

C1_Witness ==
    /\ bsrc # None
    /\ b # None
    /\ b[1] < b[2] /\ b[3] < b[4] /\ b[5] < b[6]
    /\ Cardinality(np_nonzero(bsrc)) = 2

\* C2: in get_item_from_index, for a label with nonempty foreground, the
\* assertion on the cropped shapes never fails, in either label_mode, and
\* after resizing scan and label both have shape (res, res, res_z).
C2_CropResizeKeepsShapesEqual ==
    (cfg.call = "get_item_from_index" /\ label0 # None /\ np_nonzero(label0) # {}) =>
        /\ ~ (pc = "raised" /\ err.type = "AssertionError"
                            /\ err.at = "get_item_from_index")
        /\ pc = "resized" =>
             /\ out.scan = <<out.res, out.res, out.res_z>>
             /\ out.label = <<out.res, out.res, out.res_z>>

\* C5: crop_volume returns two volumes of depth exactly crop_height.
C5_CropDepthIsCropHeight ==
    pc \in {"cropped", "returned"} =>
        /\ scan.shape[3] = cfg.crop_height
        /\ label.shape[3] = cfg.crop_height

\* C7: for a label with no foreground voxels (after the optional merge)
\* bbox_dim_3D prints its warning and returns None, and get_item_from_index
\* (like crop_volume) raises instead of returning a scan/label pair.
C7_EmptyLabelRaises ==
    /\ (bsrc # None /\ np_nonzero(bsrc) = {}) =>
          /\ b = None
          /\ \E i \in 1 .. Len(printed) : printed[i] = "Warning Empty Label Mask"
          /\ pc = "raised"
          /\ err.type = "TypeError"
          /\ out = None
    /\ (label0 # None /\ np_nonzero(label0) = {}) =>
          /\ pc \in {"merged", "boxed", "raised"}
          /\ out = None

C7_Witness ==
    /\ pc = "raised"
    /\ cfg.call = "get_item_from_index"
    /\ cfg.label_mode = "bbox-seg"
    /\ np_nonzero(raw.label) # {}
    /\ label0 # None
    /\ np_nonzero(label0) = {}
    /\ b = None

\* C9: preprocess_scan and rotate_label move the voxel at every index to the
\* same output index, both outputs have shape (C, R, D), and the shape
\* assertion of preprocess_and_convert_to_numpy does not fail.
C9_ScanAndLabelRotatedAlike ==
    /\ ~ (pc = "raised" /\ err.at = "preprocess_and_convert_to_numpy")
    /\ pc = "preprocessed" =>
         LET scaled == scale_array(np_clip(raw.scan, ClipLow, ClipHigh))
             s == raw.scan.shape
         IN  /\ scan.shape = <<s[2], s[1], s[3]>>
             /\ label.shape = <<s[2], s[1], s[3]>>
             /\ \A q \in Idx(s) :
                  \E p \in Idx(scan.shape) :
                     /\ scan.val[p] = scaled.val[q]
                     /\ label.val[p] = raw.label.val[q]

C9_Witness ==
    /\ pc = "preprocessed"
    /\ raw.scan.shape[1] # raw.scan.shape[2]
    /\ Cardinality(np_nonzero(label)) = 2

\* C10: in label_mode "bbox-seg" the replacement label has the shape of the
\* original label, is 1 exactly on the voxels inside the bounding box (bounds
\* inclusive), and so is 1 on every foreground voxel of the original label.
C10_BBoxLabelIsIndicator ==
    (pc = "boxed" /\ cfg.label_mode = "bbox-seg") =>
        /\ label.shape = label0.shape
        /\ \A v \in Idx(label.shape) :
             label.val[v] = IF InBox(b, v) THEN 1 ELSE 0
        /\ \A v \in np_nonzero(label0) : label.val[v] = 1

\* ------------------------------------------------------- dataset adapters

\* The adapters keep lists of file names.  A file name is a record
\* [stem, ext]; the volumes and images behind the names are modelled by the
\* specifications above, so an item is the paths get_item_from_index opens.

MaxFiles == 2
DefaultSampleLimit == -1

RECURSIVE SeqFilter(_, _)
\* [x for x in s if x in keep]
SeqFilter(s, keep) ==
    IF s = << >> THEN << >>
    ELSE (IF Head(s) \in keep THEN <<Head(s)>> ELSE << >>) \o SeqFilter(Tail(s), keep)

\* the orderings of a finite set, as sequences
Orderings(S) ==
    { s \in [1 .. Cardinality(S) -> S] : \A x \in S : \E i \in DOMAIN s : s[i] = x }

\* str.lower() on the extensions that occur
str_lower(ext) ==
    CASE ext = ".PNG" -> ".png"
      [] ext = ".JPG" -> ".jpg"
      [] ext = ".Txt" -> ".txt"
      [] OTHER -> ext

\* the default of PathDataset's extensions argument
extensions ==
    { ".jpg", ".jpeg", ".png", ".ppm", ".bmp", ".pgm", ".tif", ".tiff",
      ".webp", ".dcm", ".dicom" }

\* os.path.split(f)[1].lower().startswith("._") on the stems that occur
startswith_dot_underscore(stem) == stem \in { "._a", "._B" }

\* PathDataset.__init__: self.imgs
PathDataset_imgs(listing) ==
    SeqFilter(listing,
              { f \in { listing[i] : i \in DOMAIN listing } :
                    /\ str_lower(f.ext) \in extensions
                    /\ ~ startswith_dot_underscore(f.stem) })

PathDataset_init(args) ==
    [cls |-> "PathDataset", imgs |-> PathDataset_imgs(args.listing)]

\* [file for i, file in enumerate(found) if i < sample_limit]
first_sample_limit(found, sample_limit) ==
    [k \in 1 .. Cardinality({ i \in DOMAIN found : i - 1 < sample_limit }) |-> found[k]]

\* MSD_data.__init__: the attributes the index protocol reads
MSD_data_init(args) ==
    [cls |-> "MSD_data",
     sample_limit |-> args.sample_limit,
     scan_names |-> first_sample_limit(args.scans, args.sample_limit),
     label_names |-> first_sample_limit(args.labels, args.sample_limit)]

\* f"{index}.jpg"
JpgName(index) == [stem |-> index, ext |-> ".jpg"]

\* list.sort() on names 0.jpg, 1.jpg, ... of fewer than ten files, where
\* the order of the strings is the order of the numbers
list_sort(names) ==
    LET S == { names[i] : i \in DOMAIN names }
    IN  CHOOSE s \in Orderings(S) :
            \A i, j \in DOMAIN s : i < j => s[i].stem < s[j].stem

\* [file for file in listdir(path) if isfile(join(path, file))]
only_files(listing) ==
    LET kept == SeqFilter(listing, { e \in { listing[i] : i \in DOMAIN listing } : e.isfile })
    IN  [i \in DOMAIN kept |-> kept[i].name]

\* MSD_data_images.__init__: the two sorted lists the assertion compares
MSD_data_images_init(args) ==
    [cls |-> "MSD_data_images",
     scan_names |-> list_sort(only_files(args.inputs)),
     label_names |-> list_sort(only_files(args.labels))]

\* SegmentationData.__init__: f.read().splitlines()
SegmentationData_init(args) ==
    [cls |-> "SegmentationData", image_names |-> args.lines]

\* ---- the constructor calls that are enumerated

PathCatalogue ==
    << [stem |-> "a", ext |-> ".png"], [stem |-> "._a", ext |-> ".png"],
       [stem |-> "b", ext |-> ".JPG"], [stem |-> "notes", ext |-> ".Txt"],
       [stem |-> "._B", ext |-> ".PNG"] >>

NiiFile(dir, i) == [dir |-> dir, stem |-> i, ext |-> ".nii.gz"]

NiiFiles(dir, n) == [i \in 1 .. n |-> NiiFile(dir, i)]

SampleLimits == DefaultSampleLimit .. MaxFiles + 1

DirEntries(n, withdir) ==
    { [name |-> JpgName(i), isfile |-> TRUE] : i \in 0 .. n - 1 }
        \cup (IF withdir THEN { [name |-> [stem |-> n, ext |-> ""], isfile |-> FALSE] }
              ELSE { })

SegLine(i) == [stem |-> i, ext |-> IF i % 2 = 1 THEN ".bmp" ELSE ""]

\* os.listdir returns the entries in arbitrary order: ascending by name and
\* the reverse are enumerated
Listings(entries) ==
    { s \in Orderings(entries) :
          \/ \A i, j \in DOMAIN s : i < j => s[i].name.stem < s[j].name.stem
          \/ \A i, j \in DOMAIN s : i < j => s[i].name.stem > s[j].name.stem }

ConstructorCalls ==
    { [cls |-> "PathDataset", listing |-> SeqFilter(PathCatalogue, S)] :
          S \in SUBSET { PathCatalogue[i] : i \in DOMAIN PathCatalogue } }
    \cup UNION { { [cls |-> "MSD_data", sample_limit |-> l,
                    scans |-> NiiFiles("imagesTr", ns),
                    labels |-> NiiFiles("labelsTr", nl)] :
                      l \in SampleLimits, nl \in { ns, Max2(ns - 1, 0) } } :
                  ns \in 0 .. MaxFiles }
    \cup UNION { { [cls |-> "MSD_data_images", inputs |-> i, labels |-> l] :
                     i \in Listings(DirEntries(n, d)),
                     l \in Listings(DirEntries(n, FALSE))
                           \cup Listings(DirEntries(Max2(n - 1, 0), FALSE)) } :
                 n \in 0 .. MaxFiles, d \in BOOLEAN }
    \cup { [cls |-> "SegmentationData", lines |-> [i \in 1 .. n |-> SegLine(i)]] :
              n \in 0 .. MaxFiles }

\* ---- keys

IntKeys == (0 - (MaxFiles + 2)) .. (MaxFiles + 1)

SliceParts == { None, <<1>>, <<-1>>, <<2>>, <<MaxFiles + 1>> }

Keys ==
    { [type |-> t, v |-> i] : t \in { "int", "np.integer" }, i \in IntKeys }
    \cup { [type |-> "slice", start |-> a, stop |-> o, step |-> e] :
             a \in SliceParts \ { <<2>>, <<MaxFiles + 1>> },
             o \in SliceParts \ { <<2>> },
             e \in { None, <<0>>, <<-1>>, <<2>> } }
    \cup { [type |-> "str", text |-> "0"] }

\* ---- __len__ and __getitem__

\* how a call ends; loaded lists the indices whose files were opened
Returns(v, loaded) == [kind |-> "return", value |-> v, loaded |-> loaded]
Raises(e, loaded) == [kind |-> "raise", exc |-> e, loaded |-> loaded]

\* __len__ of the four adapters
dataset_len(a) ==
    CASE a.cls = "PathDataset" -> Len(a.imgs)
      [] a.cls = "MSD_data" ->
             IF a.sample_limit = -1 THEN Len(a.scan_names) ELSE a.sample_limit
      [] a.cls = "MSD_data_images" -> Len(a.scan_names)
      [] a.cls = "SegmentationData" -> Len(a.image_names)

\* slice.indices(n) for a step other than 0: <<start, stop, step>>
slice_indices(key, n) ==
    LET step == IF key.step = None THEN 1 ELSE key.step[1]
        lower == IF step < 0 THEN -1 ELSE 0
        upper == IF step < 0 THEN n - 1 ELSE n
        adjust(x) == IF x < 0 THEN Max2(x + n, lower) ELSE Min2(x, upper)
        start == IF key.start = None
                 THEN (IF step < 0 THEN upper ELSE lower)
                 ELSE adjust(key.start[1])
        stop == IF key.stop = None
                THEN (IF step < 0 THEN lower ELSE upper)
                ELSE adjust(key.stop[1])
    IN  <<start, stop, step>>

\* list(range(start, stop, step)) for a step other than 0
py_range(start, stop, step) ==
    LET count == IF step > 0
                 THEN (IF stop > start THEN (stop - start + step - 1) \div step ELSE 0)
                 ELSE (IF start > stop THEN (start - stop - step - 1) \div (0 - step) ELSE 0)
    IN  [i \in 1 .. count |-> start + (i - 1) * step]

\* "name.bmp".replace(".bmp", "")
replace_bmp(name) == [name EXCEPT !.ext = IF @ = ".bmp" THEN "" ELSE @]

\* get_item_from_index: the files the call opens for a 0-based index, or
\* the exception of the list access / the missing file
get_item_from_index(a, index) ==
    CASE a.cls = "MSD_data" ->
             IF index >= Len(a.scan_names) \/ index >= Len(a.label_names)
             THEN Raises("IndexError", <<index>>)
             ELSE Returns([scan |-> a.scan_names[index + 1],
                           label |-> a.label_names[index + 1]], <<index>>)
      [] a.cls = "MSD_data_images" ->
             IF \E i \in DOMAIN a.scan_names : a.scan_names[i] = JpgName(index)
             THEN Returns([scan |-> <<"inputs", JpgName(index)>>,
                           label |-> <<"labels", JpgName(index)>>], <<index>>)
             ELSE Raises("FileNotFoundError", <<index>>)
      [] a.cls = "SegmentationData" ->
             LET img_id == replace_bmp(a.image_names[index + 1])
             IN  Returns([image |-> <<"images", img_id, ".bmp">>,
                          target |-> <<"targets", img_id, "_GT.bmp">>], <<index>>)

\* the isinstance(key, int) branch of __getitem__
getitem_int(a, v) ==
    LET key == IF v < 0 THEN v + dataset_len(a) ELSE v
    IN  IF key < 0 \/ key >= dataset_len(a)
        THEN Raises("IndexError", << >>)
        ELSE get_item_from_index(a, key)

RECURSIVE getitem_each(_, _)
\* [self[ii] for ii in indices]: stops at the first exception
getitem_each(a, indices) ==
    IF indices = << >> THEN Returns(<< >>, << >>)
    ELSE LET first == getitem_int(a, Head(indices))
         IN  IF first.kind = "raise" THEN first
             ELSE LET rest == getitem_each(a, Tail(indices))
                  IN  IF rest.kind = "raise"
                      THEN Raises(rest.exc, first.loaded \o rest.loaded)
                      ELSE Returns(<<first.value>> \o rest.value,
                                   first.loaded \o rest.loaded)

\* __getitem__ of MSD_data and SegmentationData
getitem_protocol(a, key) ==
    CASE key.type = "slice" ->
             IF key.step = <<0>> THEN Raises("ValueError", << >>)
             ELSE LET r == slice_indices(key, dataset_len(a))
                  IN  getitem_each(a, py_range(r[1], r[2], r[3]))
      [] key.type = "int" -> getitem_int(a, key.v)
      [] OTHER -> Raises("TypeError", << >>)

\* __getitem__ of MSD_data_images: converts np.integer keys first
MSD_data_images_getitem(a, key) ==
    getitem_protocol(a, IF key.type = "np.integer"
                        THEN [key EXCEPT !.type = "int"] ELSE key)

\* PathDataset.__getitem__: self.imgs[idx], then the loader on the joined path
PathDataset_getitem(a, idx) ==
    CASE idx.type \in { "int", "np.integer" } ->
             LET n == Len(a.imgs)
                 i == IF idx.v < 0 THEN idx.v + n ELSE idx.v
             IN  IF i < 0 \/ i >= n THEN Raises("IndexError", << >>)
                 ELSE Returns(<<"root", a.imgs[i + 1]>>, <<i>>)
      [] idx.type = "slice" ->
             IF idx.step = <<0>> THEN Raises("ValueError", << >>)
             ELSE Raises("TypeError", << >>)
      [] OTHER -> Raises("TypeError", << >>)

dataset_getitem(a, key) ==
    CASE a.cls = "PathDataset" -> PathDataset_getitem(a, key)
      [] a.cls = "MSD_data_images" -> MSD_data_images_getitem(a, key)
      [] OTHER -> getitem_protocol(a, key)

\* ---- Subset and random_split

\* a_list[lo:hi]
list_slice(s, lo, hi) ==
    LET norm(x) == IF x < 0 THEN Max2(x + Len(s), 0) ELSE Min2(x, Len(s))
    IN  SubSeq(s, norm(lo) + 1, norm(hi))

\* itertools.accumulate(lengths)
accumulate(lengths) == [i \in DOMAIN lengths |-> SumSeq(SubSeq(lengths, 1, i))]

\* a variant that takes the slice after the offset instead of before it
subset_indices_forward(indices, offset, length) ==
    list_slice(indices, offset, offset + length)

\* indices[offset - length : offset]
subset_indices(indices, offset, length) ==
    list_slice(indices, offset - length, offset)

\* Subset.__init__
Subset(d, indices) == [dataset |-> d, indices |-> indices]

\* randperm(n).tolist(): any ordering of 0 .. n-1
randperm(n) == Orderings(0 .. n - 1)

\* random_split with the permutation the generator draws
random_split(d, lengths, perm) ==
    IF SumSeq(lengths) # dataset_len(d)
    THEN Raises("ValueError", << >>)
    ELSE Returns([i \in DOMAIN lengths |->
                     Subset(d, subset_indices(perm, accumulate(lengths)[i], lengths[i]))],
                 << >>)

\* the lengths arguments that are enumerated
LengthLists ==
    { l \in UNION { [1 .. k -> 0 .. MaxFiles + 1] : k \in 1 .. MaxFiles + 1 } :
          SumSeq(l) <= MaxFiles + 2 }

\* ---- the adapter's life: construction, any sequence of __len__ and
\* ---- __getitem__ calls, and a final random_split

\* a variant in which loading an item removes the first entry of each list
self_after_call_pop(a, r) ==
    IF r.loaded = << >> THEN a
    ELSE CASE a.cls = "PathDataset" -> [a EXCEPT !.imgs = Tail(@)]
           [] a.cls = "SegmentationData" -> [a EXCEPT !.image_names = Tail(@)]
           [] OTHER -> [a EXCEPT !.scan_names = IF @ = << >> THEN @ ELSE Tail(@),
                                 !.label_names = IF @ = << >> THEN @ ELSE Tail(@)]

\* the attributes of self after a call that ended as r: __len__,
\* __getitem__ and get_item_from_index read self.imgs, self.scan_names,
\* self.label_names, self.image_names and self.sample_limit and assign none
self_after_call(a, r) == a

InitData ==
    /\ dl_pc = "new"
    /\ dl_args \in ConstructorCalls
    /\ adapter = None
    /\ built = None
    /\ call = None
    /\ ret = None
    /\ VolIdle
    /\ SegIdle
    /\ StatIdle

\* the object as __init__ leaves it
dataset_init(args) ==
    CASE args.cls = "PathDataset" -> PathDataset_init(args)
      [] args.cls = "MSD_data" -> MSD_data_init(args)
      [] args.cls = "MSD_data_images" -> MSD_data_images_init(args)
      [] args.cls = "SegmentationData" -> SegmentationData_init(args)

\* MSD_data_images.__init__: assert scan_names == label_names
init_assertion(d) == d.cls = "MSD_data_images" => d.scan_names = d.label_names

Construct ==
    /\ dl_pc = "new"
    /\ IF init_assertion(dataset_init(dl_args))
       THEN /\ dl_pc' = "ready"
            /\ adapter' = dataset_init(dl_args)
            /\ built' = dataset_init(dl_args)
            /\ ret' = ret
       ELSE /\ dl_pc' = "failed"
            /\ ret' = Raises("AssertionError", << >>)
            /\ UNCHANGED <<adapter, built>>
    /\ UNCHANGED <<dl_args, call, volvars, segvars, statvars>>

CallLen ==
    /\ dl_pc = "ready"
    /\ call' = [op |-> "__len__"]
    /\ ret' = Returns(dataset_len(adapter), << >>)
    /\ adapter' = self_after_call(adapter, ret')
    /\ UNCHANGED <<dl_pc, dl_args, built, volvars, segvars, statvars>>

CallGetItem ==
    /\ dl_pc = "ready"
    /\ \E key \in Keys :
         /\ call' = [op |-> "__getitem__", key |-> key]
         /\ ret' = dataset_getitem(adapter, key)
    /\ adapter' = self_after_call(adapter, ret')
    /\ UNCHANGED <<dl_pc, dl_args, built, volvars, segvars, statvars>>

CallRandomSplit ==
    /\ dl_pc = "ready"
    /\ \E lengths \in LengthLists :
         \E perm \in (IF SumSeq(lengths) = dataset_len(adapter)
                      THEN randperm(SumSeq(lengths)) ELSE { << >> }) :
            /\ call' = [op |-> "random_split", lengths |-> lengths, perm |-> perm]
            /\ ret' = random_split(adapter, lengths, perm)
    /\ dl_pc' = "split"
    /\ UNCHANGED <<dl_args, adapter, built, volvars, segvars, statvars>>

NextData ==
    \/ Construct
    \/ CallLen
    \/ CallGetItem
    \/ CallRandomSplit

SpecData == InitData /\ [][NextData]_vars

\* ------------------------------------------------- dataset adapter claims

\* an adapter exists: its constructor returned
Built == dl_pc \in { "ready", "split" }

\* the adapter's index-to-file-path mapping
Mapping(a) ==
    CASE a.cls = "PathDataset" -> <<a.imgs>>
      [] a.cls = "SegmentationData" -> <<a.image_names>>
      [] OTHER -> <<a.scan_names, a.label_names>>

LastCallIs(op) == Built /\ call # None /\ call.op = op

\* C11: an MSD_data constructed with the default sample_limit (-1) holds all
\* samples: its length is the number of scan files found under imagesTr,
\* and scan_names and label_names hold every file that was enumerated.
C11_DefaultLimitKeepsAllSamples ==
    (Built /\ adapter.cls = "MSD_data" /\ dl_args.sample_limit = DefaultSampleLimit) =>
        /\ dataset_len(adapter) = Len(dl_args.scans)
        /\ adapter.scan_names = dl_args.scans
        /\ adapter.label_names = dl_args.labels
        /\ LastCallIs("__len__") => ret = Returns(Len(dl_args.scans), << >>)

\* C12: the index-to-file-path mapping of an adapter (imgs, scan_names and
\* label_names, image_names) is the one its constructor built, whatever
\* __len__ and __getitem__ calls were made since, the failing ones included.
C12_MappingFixedAtConstruction ==
    Built =>
        /\ Mapping(adapter) = Mapping(built)
        /\ adapter = built

\* the last call on a non-empty mapping loaded MaxFiles items, or was a
\* __getitem__ of MSD_data that failed with IndexError
C12_Witness ==
    /\ LastCallIs("__getitem__")
    /\ Mapping(built)[1] # << >>
    /\ \/ ret.kind = "return" /\ Len(ret.loaded) = MaxFiles
       \/ ret.kind = "raise" /\ ret.exc = "IndexError" /\ adapter.cls = "MSD_data"

\* the keys a class treats as integers: int, and for MSD_data_images
\* np.integer as well
IsIntegerKey(a, key) ==
    \/ key.type = "int"
    \/ key.type = "np.integer" /\ a.cls = "MSD_data_images"

\* the index has an entry in every list of the mapping
HasEntry(a, i) == \A k \in DOMAIN Mapping(a) : i < Len(Mapping(a)[k])

\* the item of the mapping's entry at a 0-based index
ItemAt(a, i) ==
    CASE a.cls = "MSD_data" ->
             [scan |-> a.scan_names[i + 1], label |-> a.label_names[i + 1]]
      [] a.cls = "MSD_data_images" ->
             [scan |-> <<"inputs", a.scan_names[i + 1]>>,
              label |-> <<"labels", a.label_names[i + 1]>>]
      [] a.cls = "SegmentationData" ->
             [image |-> <<"images", [stem |-> a.image_names[i + 1].stem, ext |-> ""], ".bmp">>,
              target |-> <<"targets", [stem |-> a.image_names[i + 1].stem, ext |-> ""], "_GT.bmp">>]

\* the call returned the items at the given indices, in order
ReturnedItemsAt(a, indices) ==
    /\ \A k \in DOMAIN indices : HasEntry(a, indices[k])
    /\ ret = Returns([k \in DOMAIN indices |-> ItemAt(a, indices[k])], indices)

\* C13: __getitem__ of MSD_data, MSD_data_images and SegmentationData, with
\* n = len(dataset): an integer key in [0, n) returns the item at that
\* index, one in [-n, -1] the item at key + n, any other integer raises
\* IndexError without loading anything; a slice returns the items at
\* range(*slice.indices(n)) in that order; any other key raises TypeError.
C13_IndexProtocol ==
    (LastCallIs("__getitem__") /\ adapter.cls # "PathDataset") =>
        LET n == dataset_len(adapter)
            key == call.key
        IN  /\ (IsIntegerKey(adapter, key) /\ 0 <= key.v /\ key.v < n) =>
                   /\ HasEntry(adapter, key.v)
                   /\ ret = Returns(ItemAt(adapter, key.v), <<key.v>>)
            /\ (IsIntegerKey(adapter, key) /\ 0 - n <= key.v /\ key.v <= -1) =>
                   /\ HasEntry(adapter, key.v + n)
                   /\ ret = Returns(ItemAt(adapter, key.v + n), <<key.v + n>>)
            /\ (IsIntegerKey(adapter, key) /\ (key.v < 0 - n \/ key.v >= n)) =>
                   ret = Raises("IndexError", << >>)
            /\ (key.type = "slice" /\ key.step # <<0>>) =>
                   LET r == slice_indices(key, n)
                   IN  ReturnedItemsAt(adapter, py_range(r[1], r[2], r[3]))
            /\ (~ IsIntegerKey(adapter, key) /\ key.type # "slice") =>
                   ret = Raises("TypeError", << >>)

\* C14: random_split raises ValueError when sum(lengths) differs from
\* len(dataset); otherwise it returns one Subset per entry of lengths, the
\* i-th with exactly lengths[i] indices, and the index lists partition
\* 0 .. len(dataset)-1 whatever permutation is drawn.
C14_RandomSplitPartitions ==
    LastCallIs("random_split") =>
        IF SumSeq(call.lengths) # dataset_len(adapter)
        THEN ret.kind = "raise" /\ ret.exc = "ValueError"
        ELSE /\ ret.kind = "return"
             /\ Len(ret.value) = Len(call.lengths)
             /\ \A i \in DOMAIN ret.value :
                    /\ Len(ret.value[i].indices) = call.lengths[i]
                    /\ ret.value[i].dataset = adapter
             /\ \A x \in 0 .. dataset_len(adapter) - 1 :
                    Cardinality({ p \in (DOMAIN ret.value) \X (1 .. dataset_len(adapter)) :
                                      /\ p[2] \in DOMAIN ret.value[p[1]].indices
                                      /\ ret.value[p[1]].indices[p[2]] = x }) = 1
             /\ \A i \in DOMAIN ret.value : \A j \in DOMAIN ret.value[i].indices :
                    ret.value[i].indices[j] \in 0 .. dataset_len(adapter) - 1

\* a dataset of MaxFiles + 1 items was split into three non-empty parts
\* along a permutation that moves the first index
C14_Witness ==
    /\ LastCallIs("random_split")
    /\ ret.kind = "return"
    /\ dataset_len(adapter) = MaxFiles + 1
    /\ Cardinality({ i \in DOMAIN call.lengths : call.lengths[i] > 0 }) >= MaxFiles
    /\ call.perm[1] # 0

\* C15: for every MSD_data, whatever sample_limit and the number of files,
\* len(dataset) is at most len(scan_names) and at most len(label_names), so
\* a key that __getitem__ accepts never indexes past the end of the lists.
C15_LenWithinLists ==
    (Built /\ adapter.cls = "MSD_data") =>
        /\ dataset_len(adapter) <= Len(adapter.scan_names)
        /\ dataset_len(adapter) <= Len(adapter.label_names)
        /\ LastCallIs("__getitem__") =>
               \A k \in DOMAIN ret.loaded : HasEntry(adapter, ret.loaded[k])

====
